---- MODULE Spec2Model ----
(***************************************************************************)
(* A model of openvpnManager.py: the menu loop of main, start_vpn with its *)
(* helpers kill_openvpn, get_credentials, wait_for_initialization and      *)
(* is_openvpn_running, and check_permissions.  External commands (sudo,    *)
(* pgrep, kill, touch, chmod, rm, openvpn, tail) are steps whose exit      *)
(* status is chosen by the environment; the openvpn daemons are processes  *)
(* that live on after the command that forked them has returned.           *)
(***************************************************************************)
EXTENDS Integers, Sequences, FiniteSets, TLC

\* ------------------------------------------------------------------ bounds
MaxProcs == 2
MaxLines == 2
MaxLog == 11
MaxMarkers == 1

\* ------------------------------------------------------- program constants
MODE_600 == 384
MODE_700 == 448
MODE_CREATE == 438
MODE_755 == 493
\* the lines of the file that tail -f prints before it follows the file
TAIL_LINES == 10

\* ----------------------------------------------------------------- strings
\* x in s, Python's substring test on str
Contains(s, x) ==
    \E i \in 1..(Len(s) - Len(x) + 1) : SubSeq(s, i, i + Len(x) - 1) = x

\* s.endswith(x)
EndsWith(s, x) ==
    /\ Len(s) >= Len(x)
    /\ SubSeq(s, Len(s) - Len(x) + 1, Len(s)) = x

\* the number of leading dots of a file name, which os.path.splitext skips
RECURSIVE LeadingDots(_)
LeadingDots(s) ==
    IF Len(s) > 0 /\ SubSeq(s, 1, 1) = "."
    THEN 1 + LeadingDots(SubSeq(s, 2, Len(s)))
    ELSE 0

\* os.path.splitext(name)[0]: the name up to its last dot, a dot among the
\* leading dots not counting
SplitextRoot(name) ==
    LET dots == {i \in (LeadingDots(name) + 2)..Len(name) : SubSeq(name, i, i) = "."}
    IN  IF dots = {} THEN name
        ELSE LET last == CHOOSE i \in dots : \A j \in dots : j <= i
             IN  SubSeq(name, 1, last - 1)

\* ------------------------------------------------------------- mode bits
RECURSIVE BitAnd(_, _)
BitAnd(a, b) ==
    IF a = 0 \/ b = 0 THEN 0
    ELSE (a % 2) * (b % 2) + 2 * BitAnd(a \div 2, b \div 2)

\* the mode open() gives a file it creates: 0o666 & ~umask
CreatedMode(mask) == MODE_CREATE - BitAnd(MODE_CREATE, mask)

\* the file-creation masks the program is run under: 0o022 and 0o077
Umasks == {18, 63}

\* ------------------------------------------------------------ file system
OPENVPN_DIR == "/home/u/openvpn/OpenVPN_files"
CREDENTIALS_DIR == "/home/u/openvpn/.credentials"

\* the files under OPENVPN_DIR in os.walk order: root directory, name, content
OvpnTree ==
    << [root |-> OPENVPN_DIR \o "/work", name |-> "office.ovpn",
        content |-> "client\nauth-user-pass\n"],
       [root |-> OPENVPN_DIR \o "/work", name |-> "notes.txt",
        content |-> "auth-user-pass\n"],
       [root |-> OPENVPN_DIR \o "/home", name |-> "office.ovpn",
        content |-> "client\nauth-user-pass\n"],
       [root |-> OPENVPN_DIR \o "/home", name |-> "free.ovpn",
        content |-> "client\nremote vpn 1194\n"] >>

FullPath(f) == f.root \o "/" \o f.name

\* find_ovpn_files: the .ovpn files of the tree, in walk order
find_ovpn_files ==
    LET IsOvpn(f) == EndsWith(f.name, ".ovpn")
        Entry(f) == [name |-> f.name, full_path |-> FullPath(f), content |-> f.content]
        sel == SelectSeq(OvpnTree, IsOvpn)
    IN  [i \in 1..Len(sel) |-> Entry(sel[i])]

\* needs_credentials: 'auth-user-pass' in the file's content
needs_credentials(config) == Contains(config.content, "auth-user-pass")

\* get_credentials: the path of the secret file of a configuration name
cred_file(config_name) ==
    CREDENTIALS_DIR \o "/" \o SplitextRoot(config_name) \o ".cred"

\* the secret files get_credentials can be asked for: start_vpn calls it for
\* the configurations that need credentials
CredPaths ==
    {cred_file(find_ovpn_files[i].name) :
        i \in {j \in 1..Len(find_ovpn_files) : needs_credentials(find_ovpn_files[j])}}

NoConfig == [name |-> "", full_path |-> "", content |-> ""]
NoFile == [exists |-> FALSE, mode |-> 0, content |-> <<>>]

\* what the operator types at the prompts of get_credentials, and what an
\* earlier run stored; short, because a write that fails can stop at every
\* character of them
Usernames == {"al"}
Passwords == {"pw2"}
StoredSecret == <<"al", "pw1">>

\* a secret file as the program can find it at start-up: absent, or kept
\* from an earlier run, with the mode check_permissions may have reported
StoredFiles ==
    {NoFile} \cup
    {[exists |-> TRUE, mode |-> m, content |-> StoredSecret] :
        m \in {MODE_600} \cup {CreatedMode(u) : u \in Umasks}}

\* ------------------------------------------------------------- classifier
SUCCESS_MARKER == "Initialization Sequence Completed"
FAILURE_MARKERS == {"AUTH_FAILED", "Connection refused", "No such file or directory"}

\* the lines tail can deliver; readline keeps the newline
Lines ==
    { "Thu OpenVPN 2.6.3 x86_64-pc-linux-gnu\n",
      "auth_failed, initialization sequence completed\n",
      "Thu Initialization Sequence Completed\n",
      "Thu AUTH_FAILED\n",
      "TCP: connect to [AF_INET]10.0.0.1:1194 failed: Connection refused\n",
      "Options error: --ca fails with 'ca.crt': No such file or directory\n",
      "up.sh: No such file or directory; Initialization Sequence Completed\n" }

HasSuccess(output) == Contains(output, SUCCESS_MARKER)
HasFailure(output) == \E x \in FAILURE_MARKERS : Contains(output, x)
HasMarker(output) == HasSuccess(output) \/ HasFailure(output)

\* what wait_for_initialization returns for Established (line 255) and for
\* Failed (line 257)
EstablishedValue == TRUE
FailedValue == FALSE

\* one pass of the loop body of wait_for_initialization on a line read
LineVerdictSuccessLast(output) ==
    IF HasFailure(output) THEN "return_false"
    ELSE IF HasSuccess(output) THEN "return_true"
    ELSE "continue"

LineVerdict(output) ==
    IF HasSuccess(output) THEN "return_true"
    ELSE IF HasFailure(output) THEN "return_false"
    ELSE "continue"

\* ------------------------------------------------------------------ state
VARIABLES
    pc,          \* where the controller is: a prompt of main, or a line of start_vpn
    debug,       \* main's debug preference
    config,      \* the entry of find_ovpn_files start_vpn was called with
    umask,       \* the process's file-creation mask
    userSet,     \* USER is in the environment of the process (line 283)
    procs,       \* pid -> "none", "running" or "terminating" (SIGTERM sent, not yet exited)
    pids,        \* kill_openvpn: the pids of pgrep's output still to be killed
    listed,      \* kill_openvpn: the pids pgrep printed
    signalled,   \* kill_openvpn: the pids whose sudo kill returned 0
    killRet,     \* kill_openvpn's return value
    stopIssued,  \* start_vpn has called kill_openvpn in this call
    launched,    \* the pid of the client this call of start_vpn started, 0 if none
    logExists,   \* the log file of this mode exists
    sinkCreated, \* sudo touch has created the log file in this call
    cred,        \* secret-file path -> [exists, mode, content]
    username,    \* get_credentials: the username typed
    password,    \* get_credentials: the password typed
    credRet,     \* get_credentials's return value: a path, or "None"
    credVia,     \* how get_credentials returned: "reuse", "saved", "error", or "" not yet
    tailProc,    \* log_process: "none", "running" or "terminated"
    seen,        \* wait_for_initialization: the lines read so far
    waitRet,     \* wait_for_initialization's return value
    waitVia,     \* the line it returned at: 255, 257, 259 (interrupt), 260 (end of stream)
    startRet,    \* start_vpn's return value
    startVia,    \* the line start_vpn left by
    treeMode,    \* index of OvpnTree -> the file's permission bits
    credDirMode, \* the permission bits of CREDENTIALS_DIR
    fixCommands, \* check_permissions: fix_commands, as [path, mode] records
    fixLeft,     \* check_permissions: the commands the fix loop has not reached
    fixRan,      \* check_permissions: the commands that ran with status 0
    fixAnswer,   \* check_permissions: the operator said yes to "fix these issues now?"
    auditRet,    \* check_permissions's return value
    credBefore,  \* get_credentials: the secret file and its owner when the call began
    credOwner,   \* secret-file path -> full_path of the configuration it was saved for
    log,         \* the lines the client has written to the log file
    tailPos      \* log_process: the index in log of the next line tail delivers

vars == << pc, debug, config, umask, userSet, procs, pids, listed, signalled, killRet,
           stopIssued, launched, logExists, sinkCreated, cred, username,
           password, credRet, credVia, tailProc, seen, waitRet,
           waitVia, startRet, startVia, treeMode, credDirMode, fixCommands,
           fixLeft, fixRan, fixAnswer, auditRet, credBefore, credOwner, log,
           tailPos >>

\* the record of the secret files, which only get_credentials writes
HistVars == << credBefore, credOwner >>

\* the content of the log file and tail's place in it
TailVars == << log, tailPos >>

AuditVars == << treeMode, credDirMode, fixCommands, fixLeft, fixRan, fixAnswer,
                auditRet >>

Pids == 1..MaxProcs
Live == {p \in Pids : procs[p] # "none"}

\* the ends of the program: menu choice 0, a start that succeeded, sys.exit(0)
\* from the option prompt, KeyboardInterrupt caught by main or uncaught, and
\* sys.exit(1) after the audit
EndStates ==
    {"end_menu", "end_connected", "end_sysexit", "end_interrupt", "end_traceback",
     "end_exit_1"}

\* a set of processes as pgrep can print it: pgrep prints in the order of the
\* kernel's pids, which a process gets when it starts and which the numbers of
\* the model do not carry, so every order of the set is possible
PgrepOrders(S) ==
    {q \in [1..Cardinality(S) -> S] : \A i, j \in 1..Cardinality(S) : q[i] = q[j] => i = j}

\* the locals of a call of start_vpn, as they are before the call
CallVars == << pids, listed, signalled, killRet, stopIssued, launched,
               sinkCreated, username, password, credRet, credVia,
               tailProc, seen, waitRet, waitVia, startRet, startVia >>

ResetCall ==
    /\ pids' = <<>>
    /\ listed' = {}
    /\ signalled' = {}
    /\ killRet' = FALSE
    /\ stopIssued' = FALSE
    /\ launched' = 0
    /\ sinkCreated' = FALSE
    /\ username' = ""
    /\ password' = ""
    /\ credRet' = "None"
    /\ credVia' = ""
    /\ tailProc' = "none"
    /\ seen' = <<>>
    /\ waitRet' = FALSE
    /\ waitVia' = 0
    /\ startRet' = FALSE
    /\ startVia' = 0

Init ==
    /\ pc = "debug_prompt"
    /\ debug = FALSE
    /\ config = NoConfig
    /\ umask \in Umasks
    /\ userSet \in BOOLEAN
    /\ procs = [p \in Pids |-> "none"]
    /\ pids = <<>>
    /\ listed = {}
    /\ signalled = {}
    /\ killRet = FALSE
    /\ stopIssued = FALSE
    /\ launched = 0
    /\ logExists = FALSE
    /\ sinkCreated = FALSE
    /\ cred \in [CredPaths -> StoredFiles]
    /\ username = ""
    /\ password = ""
    /\ credRet = "None"
    /\ credVia = ""
    /\ tailProc = "none"
    /\ seen = <<>>
    /\ waitRet = FALSE
    /\ waitVia = 0
    /\ startRet = FALSE
    /\ startVia = 0
    /\ treeMode = [i \in 1..Len(OvpnTree) |-> MODE_600]
    /\ credDirMode = MODE_700
    /\ fixCommands = <<>>
    /\ fixLeft = <<>>
    /\ fixRan = {}
    /\ fixAnswer = FALSE
    /\ auditRet = TRUE
    /\ credBefore = << NoFile, "" >>
    /\ credOwner = [p \in CredPaths |-> ""]
    /\ log = <<>>
    /\ tailPos = 1

\* main, lines 410-411: an exception other than KeyboardInterrupt leaves
\* start_vpn before its try statement; main prints it and shows the menu again
RaiseToMain ==
    /\ pc' = "menu"
    /\ config' = NoConfig
    /\ ResetCall
    /\ credBefore' = << NoFile, "" >>

\* main, lines 407-409: KeyboardInterrupt leaves start_vpn uncaught; main prints
\* "Exiting..." and leaves the loop
InterruptToMain ==
    /\ pc' = "end_interrupt"

\* every variable but pc
NotPc == << debug, config, umask, userSet, procs, pids, listed, signalled, killRet,
           stopIssued, launched, logExists, sinkCreated, cred, username, password,
           credRet, credVia, tailProc, seen, waitRet, waitVia, startRet, startVia,
           treeMode, credDirMode, fixCommands, fixLeft, fixRan, fixAnswer, auditRet,
           credBefore, credOwner, log, tailPos >>

\* KeyboardInterrupt is raised between two statements, outside the try
\* statement of start_vpn: nothing else has happened when main catches it
InterruptFrom ==
    /\ InterruptToMain
    /\ UNCHANGED NotPc

\* main, lines 374-393: KeyboardInterrupt outside the try statement of main
\* is caught nowhere; the program ends with a traceback
TracebackFrom ==
    /\ pc' = "end_traceback"
    /\ UNCHANGED NotPc

\* an external command that cannot be run (sudo, pgrep not found) raises
\* FileNotFoundError, which the except clauses for CalledProcessError let
\* through to main, line 410
RaiseFrom ==
    /\ RaiseToMain
    /\ UNCHANGED << debug, umask, userSet, procs, logExists, cred, credOwner >>
    /\ UNCHANGED TailVars
    /\ UNCHANGED AuditVars

\* start_vpn returns v from line n: the finally clause of its try statement
\* runs first when the return is inside it (lines 292-347)
Return(v, n) ==
    /\ startRet' = v
    /\ startVia' = n
    /\ pc' = IF n >= 292 THEN "finally" ELSE "returned"

\* --------------------------------------------------------------------- main
\* main, line 389: the debug preference
DebugPrompt ==
    /\ UNCHANGED TailVars
    /\ UNCHANGED HistVars
    /\ UNCHANGED AuditVars
    /\ pc = "debug_prompt"
    /\ \/ \E d \in BOOLEAN : debug' = d /\ pc' = "menu"
       \/ debug' = debug /\ pc' = "end_traceback"
    /\ UNCHANGED << config, umask, userSet, procs, logExists, cred >>
    /\ UNCHANGED CallVars

\* main, lines 392-404: one pass of the menu loop up to the call of start_vpn:
\* choice 0, an invalid choice, KeyboardInterrupt at the prompt (line 395,
\* inside the try statement) or in show_menu (line 393, outside it), or a
\* configuration
MenuSelect ==
    /\ UNCHANGED TailVars
    /\ UNCHANGED HistVars
    /\ UNCHANGED AuditVars
    /\ pc = "menu"
    /\ \/ pc' = "end_menu" /\ config' = config
       \/ pc' = "menu" /\ config' = config
       \/ pc' = "end_interrupt" /\ config' = config
       \/ pc' = "end_traceback" /\ config' = config
       \/ /\ \E i \in 1..Len(find_ovpn_files) : config' = find_ovpn_files[i]
          /\ pc' = "check_sudo"
    /\ UNCHANGED << debug, umask, userSet, procs, logExists, cred >>
    /\ UNCHANGED CallVars

\* a main that gives up after a start that failed
AfterStartExitsOnFailure ==
    /\ pc = "returned"
    /\ \/ /\ UNCHANGED TailVars
          /\ UNCHANGED AuditVars
          /\ pc' = IF startRet THEN "end_connected" ELSE "end_exit_1"
          /\ config' = NoConfig
          /\ ResetCall
          /\ credBefore' = << NoFile, "" >>
          /\ credOwner' = credOwner
          /\ UNCHANGED << debug, umask, userSet, procs, logExists, cred >>
       \/ InterruptFrom

\* main, lines 404-405: start_vpn has returned; KeyboardInterrupt before the
\* test of line 404 is over goes to line 407
AfterStart ==
    /\ pc = "returned"
    /\ \/ /\ UNCHANGED TailVars
          /\ UNCHANGED AuditVars
          /\ pc' = IF startRet THEN "end_connected" ELSE "menu"
          /\ config' = NoConfig
          /\ ResetCall
          /\ credBefore' = << NoFile, "" >>
          /\ credOwner' = credOwner
          /\ UNCHANGED << debug, umask, userSet, procs, logExists, cred >>
       \/ InterruptFrom

\* ---------------------------------------------------------------- start_vpn
\* lines 264-266 and 113-118: check_sudo; sudo -v returns 0 or not, or is
\* interrupted, or sudo cannot be run; check_sudo catches CalledProcessError
\* only
CheckSudoSkipKill ==
    /\ pc = "check_sudo"
    /\ \/ /\ UNCHANGED TailVars
          /\ UNCHANGED HistVars
          /\ UNCHANGED AuditVars
          /\ \/ pc' = "touch" /\ UNCHANGED << startRet, startVia >>
             \/ Return(FALSE, 266)
             \/ InterruptToMain /\ UNCHANGED << startRet, startVia >>
          /\ UNCHANGED << debug, config, umask, userSet, procs, pids, listed, signalled, killRet,
                          stopIssued, launched, logExists, sinkCreated, cred, username,
                          password, credRet, credVia, tailProc, seen, waitRet, waitVia >>
       \/ RaiseFrom

CheckSudo ==
    /\ pc = "check_sudo"
    /\ \/ /\ UNCHANGED TailVars
          /\ UNCHANGED HistVars
          /\ UNCHANGED AuditVars
          /\ \/ pc' = "kill_pgrep" /\ UNCHANGED << startRet, startVia >>
             \/ Return(FALSE, 266)
             \/ InterruptToMain /\ UNCHANGED << startRet, startVia >>
          /\ UNCHANGED << debug, config, umask, userSet, procs, pids, listed, signalled, killRet,
                          stopIssued, launched, logExists, sinkCreated, cred, username,
                          password, credRet, credVia, tailProc, seen, waitRet, waitVia >>
       \/ RaiseFrom

\* ------------------------------------------------------------- kill_openvpn
\* lines 227-228, 233-234: pgrep openvpn; its exit status is 1 when no process
\* matches, and kill_openvpn returns False.  KeyboardInterrupt and
\* FileNotFoundError (pgrep cannot be run) are not caught in kill_openvpn, and
\* line 268 is outside the try statement of start_vpn.
KillPgrep ==
    /\ pc = "kill_pgrep"
    /\ \/ /\ UNCHANGED TailVars
          /\ UNCHANGED HistVars
          /\ UNCHANGED AuditVars
          /\ stopIssued' = TRUE
          /\ listed' = Live
          /\ signalled' = {}
          /\ IF Live = {}
             THEN /\ killRet' = FALSE
                  /\ pids' = <<>>
                  /\ pc' = "touch"
             ELSE /\ killRet' = killRet
                  /\ pids' \in PgrepOrders(Live)
                  /\ pc' = "kill_loop"
          /\ UNCHANGED << debug, config, umask, userSet, procs, launched, logExists, sinkCreated,
                          cred, username, password, credRet, credVia, tailProc, seen,
                          waitRet, waitVia, startRet, startVia >>
       \/ InterruptFrom
       \/ RaiseFrom

\* lines 229-234: one pass of the loop, or its end.  sudo kill succeeds only on
\* a process that still exists; a non-zero status leaves the loop by the
\* except clause, KeyboardInterrupt during sudo kill leaves start_vpn, before
\* or after the signal was sent.
KillNext ==
    /\ pc = "kill_loop"
    /\ \/ /\ UNCHANGED TailVars
          /\ UNCHANGED HistVars
          /\ UNCHANGED AuditVars
          /\ IF pids = <<>>
             THEN /\ killRet' = TRUE
                  /\ pc' = "touch"
                  /\ UNCHANGED << procs, pids, signalled >>
             ELSE LET pid == Head(pids) IN
                  \/ /\ procs[pid] # "none"
                     /\ procs' = [procs EXCEPT ![pid] = "terminating"]
                     /\ signalled' = signalled \cup {pid}
                     /\ pids' = Tail(pids)
                     /\ UNCHANGED << killRet, pc >>
                  \/ /\ killRet' = FALSE
                     /\ pc' = "touch"
                     /\ pids' = Tail(pids)
                     /\ UNCHANGED << procs, signalled >>
                  \/ /\ InterruptToMain
                     /\ \/ procs' = procs
                        \/ procs[pid] # "none" /\ procs' = [procs EXCEPT ![pid] = "terminating"]
                     /\ UNCHANGED << pids, signalled, killRet >>
          /\ UNCHANGED << debug, config, umask, userSet, listed, stopIssued, launched, logExists,
                          sinkCreated, cred, username, password, credRet, credVia,
                          tailProc, seen, waitRet, waitVia, startRet, startVia >>
       \/ InterruptFrom
       \/ pids # <<>> /\ RaiseFrom

\* a client that was sent SIGTERM exits
ProcExit ==
    /\ UNCHANGED TailVars
    /\ UNCHANGED HistVars
    /\ UNCHANGED AuditVars
    /\ \E p \in Pids :
        /\ procs[p] = "terminating"
        /\ procs' = [procs EXCEPT ![p] = "none"]
    /\ UNCHANGED << pc, debug, config, umask, userSet, logExists, cred >>
    /\ UNCHANGED CallVars

\* a running client gives up by itself (authentication failed, no route)
ClientDies ==
    /\ UNCHANGED TailVars
    /\ UNCHANGED HistVars
    /\ UNCHANGED AuditVars
    /\ \E p \in Pids :
        /\ procs[p] = "running"
        /\ procs' = [procs EXCEPT ![p] = "none"]
    /\ UNCHANGED << pc, debug, config, umask, userSet, logExists, cred >>
    /\ UNCHANGED CallVars

\* ------------------------------------------------------- start_vpn, log file
\* lines 268-277: the value of kill_openvpn is dropped; sudo touch log_file.
\* The except clause catches CalledProcessError only: KeyboardInterrupt,
\* before or after the file was made, and FileNotFoundError leave start_vpn.
TouchLog ==
    /\ pc = "touch"
    /\ \/ /\ UNCHANGED TailVars
          /\ UNCHANGED HistVars
          /\ UNCHANGED AuditVars
          /\ pids' = <<>>
          /\ listed' = {}
          /\ signalled' = {}
          /\ killRet' = FALSE
          /\ \/ /\ logExists' = TRUE
                /\ sinkCreated' = TRUE
                /\ pc' = "chmod_log"
                /\ UNCHANGED << startRet, startVia >>
             \/ /\ Return(FALSE, 277)
                /\ UNCHANGED << logExists, sinkCreated >>
          /\ UNCHANGED << debug, config, umask, userSet, procs, stopIssued, launched, cred,
                          username, password, credRet, credVia, tailProc, seen,
                          waitRet, waitVia >>
       \/ InterruptFrom
       \/ /\ InterruptToMain
          /\ logExists' = TRUE
          /\ UNCHANGED << debug, config, umask, userSet, procs, cred >>
          /\ UNCHANGED CallVars
          /\ UNCHANGED TailVars
          /\ UNCHANGED HistVars
          /\ UNCHANGED AuditVars
       \/ RaiseFrom

\* lines 274-277: sudo chmod 666 log_file
ChmodLog ==
    /\ pc = "chmod_log"
    /\ \/ /\ UNCHANGED TailVars
          /\ UNCHANGED HistVars
          /\ UNCHANGED AuditVars
          /\ \/ pc' = "needs_credentials" /\ UNCHANGED << startRet, startVia >>
             \/ Return(FALSE, 277)
             \/ InterruptToMain /\ UNCHANGED << startRet, startVia >>
          /\ UNCHANGED << debug, config, umask, userSet, procs, pids, listed, signalled, killRet,
                          stopIssued, launched, logExists, sinkCreated, cred, username,
                          password, credRet, credVia, tailProc, seen, waitRet, waitVia >>
       \/ RaiseFrom

\* lines 279-286: cmd is built, os.environ["USER"] (line 283) raises KeyError
\* when USER is not set; then needs_credentials
NeedsCredentials ==
    /\ pc = "needs_credentials"
    /\ \/ /\ UNCHANGED TailVars
          /\ UNCHANGED AuditVars
          /\ IF userSet
             THEN /\ pc' = IF needs_credentials(config) THEN "cred_exists" ELSE "launch"
                  /\ UNCHANGED << config, credBefore >>
                  /\ UNCHANGED CallVars
             ELSE RaiseToMain
          /\ credOwner' = credOwner
          /\ UNCHANGED << debug, umask, userSet, procs, logExists, cred >>
       \/ InterruptFrom

\* ---------------------------------------------------------- get_credentials
CredFile == cred_file(config.name)

\* get_credentials raises KeyboardInterrupt at a prompt: lines 287-290 are
\* outside the try statement of start_vpn, so it reaches main, line 407
PromptInterrupt ==
    /\ InterruptToMain
    /\ UNCHANGED HistVars
    /\ UNCHANGED << config, username, password, credRet, credVia >>
    /\ UNCHANGED << pids, listed, signalled, killRet, stopIssued, launched,
                    sinkCreated, tailProc, seen, waitRet, waitVia, startRet, startVia >>

\* what an answered prompt of get_credentials leaves alone
CredPromptFrame ==
    /\ UNCHANGED HistVars
    /\ UNCHANGED << config, pids, listed, signalled, killRet, stopIssued, launched,
                    sinkCreated, tailProc, seen, waitRet, waitVia, startRet, startVia >>

\* input and getpass raise EOFError at the end of the input: get_credentials
\* has no handler around its prompts, so it reaches main, line 410
PromptEndOfInput ==
    /\ RaiseToMain
    /\ credOwner' = credOwner

\* lines 183-186: the secret file's path, and whether it exists
CredExists ==
    /\ pc = "cred_exists"
    /\ \/ /\ UNCHANGED TailVars
          /\ UNCHANGED AuditVars
          /\ pc' = IF cred[CredFile].exists THEN "cred_reuse_prompt" ELSE "cred_username"
          /\ credBefore' = << cred[CredFile], credOwner[CredFile] >>
          /\ credOwner' = credOwner
          /\ UNCHANGED << debug, config, umask, userSet, procs, logExists, cred >>
          /\ UNCHANGED CallVars
       \/ InterruptFrom

\* lines 187-190: "Use existing credentials?"
CredReusePrompt ==
    /\ UNCHANGED TailVars
    /\ UNCHANGED AuditVars
    /\ pc = "cred_reuse_prompt"
    /\ \/ /\ credRet' = CredFile
          /\ credVia' = "reuse"
          /\ pc' = "cred_returned"
          /\ UNCHANGED << username, password >>
          /\ CredPromptFrame
       \/ /\ pc' = "cred_username"
          /\ UNCHANGED << username, password, credRet, credVia >>
          /\ CredPromptFrame
       \/ PromptInterrupt
       \/ PromptEndOfInput
    /\ UNCHANGED << debug, umask, userSet, procs, logExists, cred >>

\* line 192
CredUsername ==
    /\ UNCHANGED TailVars
    /\ UNCHANGED AuditVars
    /\ pc = "cred_username"
    /\ \/ /\ \E u \in Usernames : username' = u
          /\ pc' = "cred_password"
          /\ UNCHANGED << password, credRet, credVia >>
          /\ CredPromptFrame
       \/ PromptInterrupt
       \/ PromptEndOfInput
    /\ UNCHANGED << debug, umask, userSet, procs, logExists, cred >>

\* line 193
CredPassword ==
    /\ UNCHANGED TailVars
    /\ UNCHANGED AuditVars
    /\ pc = "cred_password"
    /\ \/ /\ \E w \in Passwords : password' = w
          /\ pc' = "cred_open"
          /\ UNCHANGED << username, credRet, credVia >>
          /\ CredPromptFrame
       \/ PromptInterrupt
       \/ PromptEndOfInput
    /\ UNCHANGED << debug, umask, userSet, procs, logExists, cred >>

\* lines 201-203: the except clause of get_credentials
CredError ==
    /\ credRet' = "None"
    /\ credVia' = "error"
    /\ pc' = "cred_returned"

\* the file open(cred_file, 'w') leaves: an existing file is truncated and
\* keeps its mode, a new one gets the mode the umask allows
OpenedForWrite(f, mask) ==
    [exists |-> TRUE,
     mode |-> IF f.exists THEN f.mode ELSE CreatedMode(mask),
     content |-> <<>>]

\* line 196: open(cred_file, 'w')
CredOpen ==
    /\ pc = "cred_open"
    /\ \/ /\ UNCHANGED TailVars
          /\ credBefore' = credBefore
          /\ UNCHANGED AuditVars
          /\ \/ /\ cred' = [cred EXCEPT ![CredFile] = OpenedForWrite(@, umask)]
                /\ credOwner' = [credOwner EXCEPT ![CredFile] = config.full_path]
                /\ pc' = "cred_chmod"
                /\ UNCHANGED << credRet, credVia >>
             \/ CredError /\ cred' = cred /\ credOwner' = credOwner
          /\ UNCHANGED << debug, config, umask, userSet, procs, pids, listed, signalled, killRet,
                          stopIssued, launched, logExists, sinkCreated, username,
                          password, tailProc, seen, waitRet, waitVia, startRet, startVia >>
       \/ InterruptFrom

\* line 197: os.chmod(cred_file, 0o600)
CredChmod ==
    /\ pc = "cred_chmod"
    /\ \/ /\ UNCHANGED TailVars
          /\ UNCHANGED HistVars
          /\ UNCHANGED AuditVars
          /\ \/ /\ cred' = [cred EXCEPT ![CredFile].mode = MODE_600]
                /\ pc' = "cred_write"
                /\ UNCHANGED << credRet, credVia >>
             \/ CredError /\ cred' = cred
          /\ UNCHANGED << debug, config, umask, userSet, procs, pids, listed, signalled, killRet,
                          stopIssued, launched, logExists, sinkCreated, username,
                          password, tailProc, seen, waitRet, waitVia, startRet, startVia >>
       \/ InterruptFrom

\* line 198: the text f.write is given
CredText(user, pass) == user \o "\n" \o pass \o "\n"

\* the leading parts of a string: a flush that fails or is cut short stops at
\* any character
Prefixes(s) == {SubSeq(s, 1, n) : n \in 0..Len(s)}

\* the lines a reader gets from a file that holds the string s; the last one
\* need not end with a newline
RECURSIVE FileLines(_)
FileLines(s) ==
    IF s = "" THEN << >>
    ELSE LET nl == {i \in 1..Len(s) : SubSeq(s, i, i) = "\n"}
         IN  IF nl = {} THEN << s >>
             ELSE LET k == CHOOSE i \in nl : \A j \in nl : i <= j
                  IN  << SubSeq(s, 1, k - 1) >> \o FileLines(SubSeq(s, k + 1, Len(s)))

\* what the file can hold when not all of the text has reached it
WrittenParts(user, pass) == {FileLines(x) : x \in Prefixes(CredText(user, pass))}

\* a write of the two lines in the wrong order
CredWriteSwapped ==
    /\ pc = "cred_write"
    /\ \/ /\ UNCHANGED TailVars
          /\ UNCHANGED HistVars
          /\ UNCHANGED AuditVars
          /\ \/ /\ cred' = [cred EXCEPT ![CredFile].content = FileLines(CredText(password, username))]
                /\ pc' = "cred_saved"
                /\ UNCHANGED << credRet, credVia >>
             \/ /\ CredError
                /\ \E part \in WrittenParts(password, username) :
                      cred' = [cred EXCEPT ![CredFile].content = part]
             \/ /\ InterruptToMain
                /\ \E part \in WrittenParts(password, username) :
                      cred' = [cred EXCEPT ![CredFile].content = part]
                /\ UNCHANGED << credRet, credVia >>
          /\ UNCHANGED << debug, config, umask, userSet, procs, pids, listed, signalled, killRet,
                          stopIssued, launched, logExists, sinkCreated, username,
                          password, tailProc, seen, waitRet, waitVia, startRet, startVia >>

\* line 198 and the end of the with statement: f.write puts the two lines in
\* the buffer of f, and leaving the with statement flushes it to the file and
\* closes it.  When the flush or the close fails (line 201), or
\* KeyboardInterrupt arrives in these lines (the with statement still closes
\* the file on the way to main, line 407), the file holds what had reached it:
\* nothing, or the text up to any character of it.
CredWrite ==
    /\ pc = "cred_write"
    /\ \/ /\ UNCHANGED TailVars
          /\ UNCHANGED HistVars
          /\ UNCHANGED AuditVars
          /\ \/ /\ cred' = [cred EXCEPT ![CredFile].content = FileLines(CredText(username, password))]
                /\ pc' = "cred_saved"
                /\ UNCHANGED << credRet, credVia >>
             \/ /\ CredError
                /\ \E part \in WrittenParts(username, password) :
                      cred' = [cred EXCEPT ![CredFile].content = part]
             \/ /\ InterruptToMain
                /\ \E part \in WrittenParts(username, password) :
                      cred' = [cred EXCEPT ![CredFile].content = part]
                /\ UNCHANGED << credRet, credVia >>
          /\ UNCHANGED << debug, config, umask, userSet, procs, pids, listed, signalled, killRet,
                          stopIssued, launched, logExists, sinkCreated, username,
                          password, tailProc, seen, waitRet, waitVia, startRet, startVia >>

\* lines 199-200: "Credentials saved." and return cred_file; KeyboardInterrupt
\* in these lines leaves the file as it was written
CredSaved ==
    /\ pc = "cred_saved"
    /\ \/ /\ UNCHANGED TailVars
          /\ UNCHANGED HistVars
          /\ UNCHANGED AuditVars
          /\ credRet' = CredFile
          /\ credVia' = "saved"
          /\ pc' = "cred_returned"
          /\ UNCHANGED << debug, config, umask, userSet, procs, pids, listed, signalled, killRet,
                          stopIssued, launched, logExists, sinkCreated, cred, username,
                          password, tailProc, seen, waitRet, waitVia, startRet, startVia >>
       \/ InterruptFrom

\* start_vpn without the test of line 288: the client is launched whatever
\* get_credentials returned
CredReturnedIgnoresNone ==
    /\ pc = "cred_returned"
    /\ \/ /\ UNCHANGED TailVars
          /\ UNCHANGED HistVars
          /\ UNCHANGED AuditVars
          /\ pc' = "launch"
          /\ UNCHANGED << startRet, startVia >>
          /\ UNCHANGED << debug, config, umask, userSet, procs, pids, listed, signalled, killRet,
                          stopIssued, launched, logExists, sinkCreated, cred, username,
                          password, credRet, credVia, tailProc, seen, waitRet, waitVia >>
       \/ InterruptFrom

\* start_vpn, lines 287-290: what get_credentials returned
CredReturned ==
    /\ pc = "cred_returned"
    /\ \/ /\ UNCHANGED TailVars
          /\ UNCHANGED HistVars
          /\ UNCHANGED AuditVars
          /\ \/ /\ credRet = "None"
                /\ Return(FALSE, 289)
             \/ /\ credRet # "None"
                /\ pc' = "launch"
                /\ UNCHANGED << startRet, startVia >>
          /\ UNCHANGED << debug, config, umask, userSet, procs, pids, listed, signalled, killRet,
                          stopIssued, launched, logExists, sinkCreated, cred, username,
                          password, credRet, credVia, tailProc, seen, waitRet, waitVia >>
       \/ InterruptFrom

\* ------------------------------------------------------- start_vpn, launch
\* line 294: sudo openvpn --daemon ...; status 0 leaves a new client running.
\* The model holds MaxProcs clients: with that many alive the command fails.
\* KeyboardInterrupt while the command runs goes to line 342, before or after
\* the client was started: False from line 344.  A command that cannot be run
\* (sudo not found) goes to line 345: False from line 347.
Launch ==
    /\ UNCHANGED TailVars
    /\ UNCHANGED HistVars
    /\ UNCHANGED AuditVars
    /\ pc = "launch"
    /\ \/ /\ \E p \in Pids \ Live :
               /\ \A q \in Pids \ Live : p <= q
               /\ procs' = [procs EXCEPT ![p] = "running"]
               /\ launched' = p
          /\ pc' = IF debug THEN "sleep_1" ELSE "sleep_2"
          /\ UNCHANGED << startRet, startVia >>
       \/ /\ Return(FALSE, 341)
          /\ UNCHANGED << procs, launched >>
       \/ /\ Return(FALSE, 344)
          /\ \/ UNCHANGED << procs, launched >>
             \/ \E p \in Pids \ Live :
                  /\ \A q \in Pids \ Live : p <= q
                  /\ procs' = [procs EXCEPT ![p] = "running"]
                  /\ launched' = p
       \/ /\ Return(FALSE, 347)
          /\ UNCHANGED << procs, launched >>
    /\ UNCHANGED << debug, config, umask, userSet, pids, listed, signalled, killRet,
                    stopIssued, logExists, sinkCreated, cred, username, password,
                    credRet, credVia, tailProc, seen, waitRet, waitVia >>

\* lines 298 and 331: time.sleep; KeyboardInterrupt goes to line 342
Sleep ==
    /\ UNCHANGED TailVars
    /\ UNCHANGED HistVars
    /\ UNCHANGED AuditVars
    /\ pc \in {"sleep_1", "sleep_2"}
    /\ \/ /\ pc' = IF pc = "sleep_1" THEN "tail_spawn" ELSE "poll"
          /\ UNCHANGED << startRet, startVia >>
       \/ Return(FALSE, 344)
    /\ UNCHANGED << debug, config, umask, userSet, procs, pids, listed, signalled, killRet,
                    stopIssued, launched, logExists, sinkCreated, cred, username,
                    password, credRet, credVia, tailProc, seen, waitRet, waitVia >>

\* a pgrep pattern that also matches the manager's own command line
is_openvpn_running_self == TRUE

\* is_openvpn_running: pgrep openvpn found a process
is_openvpn_running == Live # {}

\* lines 332-337; KeyboardInterrupt while pgrep runs goes to line 342, and a
\* pgrep that cannot be run to line 345
Poll ==
    /\ UNCHANGED TailVars
    /\ UNCHANGED HistVars
    /\ UNCHANGED AuditVars
    /\ pc = "poll"
    /\ \/ IF is_openvpn_running THEN Return(TRUE, 334) ELSE Return(FALSE, 337)
       \/ Return(FALSE, 344)
       \/ Return(FALSE, 347)
    /\ UNCHANGED << debug, config, umask, userSet, procs, pids, listed, signalled, killRet,
                    stopIssued, launched, logExists, sinkCreated, cred, username,
                    password, credRet, credVia, tailProc, seen, waitRet, waitVia >>

\* lines 301-307: tail -f log_file; when Popen raises (tail cannot be run) the
\* except clause of line 345 returns False from line 347, and KeyboardInterrupt
\* before tail is started goes to line 342
TailSpawn ==
    /\ UNCHANGED TailVars
    /\ UNCHANGED HistVars
    /\ UNCHANGED AuditVars
    /\ pc = "tail_spawn"
    /\ \/ /\ tailProc' = "running"
          /\ pc' = "wait"
          /\ UNCHANGED << startRet, startVia >>
       \/ /\ tailProc' = tailProc
          /\ Return(FALSE, 347)
       \/ /\ tailProc' = tailProc
          /\ Return(FALSE, 344)
    /\ UNCHANGED << debug, config, umask, userSet, procs, pids, listed, signalled, killRet,
                    stopIssued, launched, logExists, sinkCreated, cred, username,
                    password, credRet, credVia, seen, waitRet, waitVia >>

\* -------------------------------------------------- wait_for_initialization
\* wait_for_initialization returns v from line n
WaitReturn(v, n) ==
    /\ waitRet' = v
    /\ waitVia' = n
    /\ pc' = "after_wait"
    /\ UNCHANGED << startRet, startVia >>

\* lines 258-259: KeyboardInterrupt inside the loop
WaitInterruptUncaught ==
    /\ waitRet' = FALSE
    /\ waitVia' = 259
    /\ Return(FALSE, 344)

WaitInterrupt == WaitReturn(FALSE, 259)

\* line 248: readline raises UnicodeDecodeError on a line that is not UTF-8;
\* wait_for_initialization catches KeyboardInterrupt only, so the exception
\* reaches line 345 of start_vpn, which returns False from line 347
WaitRaises ==
    /\ UNCHANGED << waitRet, waitVia >>
    /\ Return(FALSE, 347)

\* lines 244-260: KeyboardInterrupt outside the try statement of
\* wait_for_initialization (before line 246, or in the handler of line 258)
\* reaches line 342 of start_vpn, which returns False from line 344
WaitInterruptOutside ==
    /\ UNCHANGED << waitRet, waitVia >>
    /\ Return(FALSE, 344)

\* lines 248-257: readline and the tests on the line read
WaitReadLine ==
    /\ UNCHANGED TailVars
    /\ UNCHANGED HistVars
    /\ UNCHANGED AuditVars
    /\ pc = "wait"
    /\ \/ /\ Len(seen) < MaxLines
          /\ \E output \in Lines :
               /\ seen' = Append(seen, output)
               /\ CASE LineVerdict(output) = "return_true" -> WaitReturn(EstablishedValue, 255)
                    [] LineVerdict(output) = "return_false" -> WaitReturn(FailedValue, 257)
                    [] OTHER -> UNCHANGED << pc, waitRet, waitVia, startRet, startVia >>
       \/ /\ WaitReturn(FALSE, 260)
          /\ seen' = seen
       \/ /\ WaitInterrupt
          /\ seen' = seen
       \/ /\ WaitRaises
          /\ seen' = seen
       \/ /\ WaitInterruptOutside
          /\ seen' = seen
    /\ UNCHANGED << debug, config, umask, userSet, procs, pids, listed, signalled, killRet,
                    stopIssued, launched, logExists, sinkCreated, cred, username,
                    password, credRet, credVia, tailProc >>

\* start_vpn, lines 309-314 and 326-329; the lines read were locals of
\* wait_for_initialization.  KeyboardInterrupt in these lines goes to line 342,
\* before or after log_process.terminate() of line 328.
AfterWait ==
    /\ UNCHANGED TailVars
    /\ UNCHANGED HistVars
    /\ UNCHANGED AuditVars
    /\ pc = "after_wait"
    /\ \/ IF waitRet
          THEN /\ pc' = "option_prompt"
               /\ UNCHANGED << tailProc, startRet, startVia >>
          ELSE /\ tailProc' = "terminated"
               /\ Return(FALSE, 329)
       \/ /\ tailProc' = tailProc
          /\ Return(FALSE, 344)
       \/ /\ ~waitRet
          /\ tailProc' = "terminated"
          /\ Return(FALSE, 344)
    /\ seen' = <<>>
    /\ UNCHANGED << debug, config, umask, userSet, procs, pids, listed, signalled, killRet,
                    stopIssued, launched, logExists, sinkCreated, cred, username,
                    password, credRet, credVia, waitRet, waitVia >>

\* lines 315-325: "Select option (1-2)"; sys.exit(0) leaves by line 323
OptionPrompt ==
    /\ UNCHANGED TailVars
    /\ UNCHANGED HistVars
    /\ UNCHANGED AuditVars
    /\ pc = "option_prompt"
    /\ \/ tailProc' = "terminated" /\ Return(TRUE, 319)
       \/ tailProc' = "terminated" /\ Return(FALSE, 323)
       \/ UNCHANGED << pc, tailProc, startRet, startVia >>
       \/ tailProc' = tailProc /\ Return(FALSE, 344)
       \/ tailProc' = "terminated" /\ Return(FALSE, 344)
       \/ tailProc' = tailProc /\ Return(FALSE, 347)
    /\ UNCHANGED << debug, config, umask, userSet, procs, pids, listed, signalled, killRet,
                    stopIssued, launched, logExists, sinkCreated, cred, username,
                    password, credRet, credVia, seen, waitRet, waitVia >>

\* lines 348-353: sudo rm -f log_file unless debug; a failure is passed over.
\* KeyboardInterrupt in the finally clause (before, while or after sudo rm
\* runs) is not caught at line 352: it replaces the return of start_vpn and
\* reaches main, line 407.  So does FileNotFoundError when sudo cannot be
\* run: it reaches main, line 410.
Finally ==
    /\ pc = "finally"
    /\ \/ /\ UNCHANGED TailVars
          /\ UNCHANGED HistVars
          /\ UNCHANGED AuditVars
          /\ \/ /\ \/ ~debug /\ logExists' = FALSE
                   \/ logExists' = logExists
                /\ pc' = IF startVia = 323 THEN "end_sysexit" ELSE "returned"
             \/ /\ \/ ~debug /\ logExists' = FALSE
                   \/ logExists' = logExists
                /\ InterruptToMain
          /\ UNCHANGED << debug, config, umask, userSet, procs, cred >>
          /\ UNCHANGED CallVars
       \/ ~debug /\ RaiseFrom

\* -------------------------------------------------------- check_permissions
\* what the audit leaves alone: the state of start_vpn and of the clients
ControllerVars == << debug, config, umask, userSet, procs, logExists >>

ChmodCommand(path, mode) == [path |-> path, mode |-> mode]

\* a scan of the tree that stops at the first .ovpn file of a wrong mode
TreeIssuesStopAtFirst(tm) ==
    LET bad == SelectSeq([i \in 1..Len(OvpnTree) |-> i],
                   LAMBDA i : EndsWith(OvpnTree[i].name, ".ovpn") /\ tm[i] # MODE_600)
    IN  IF bad = << >>
        THEN << >>
        ELSE << ChmodCommand(FullPath(OvpnTree[bad[1]]), MODE_600) >>

\* lines 126-134: a command for every .ovpn file whose mode is not 0o600
TreeIssues(tm) ==
    LET bad == SelectSeq([i \in 1..Len(OvpnTree) |-> i],
                   LAMBDA i : EndsWith(OvpnTree[i].name, ".ovpn") /\ tm[i] # MODE_600)
    IN  [k \in 1..Len(bad) |-> ChmodCommand(FullPath(OvpnTree[bad[k]]), MODE_600)]

\* lines 138-142: a command for the credentials directory unless its mode is 0o700
DirIssues(dm) ==
    IF dm # MODE_700 THEN << ChmodCommand(CREDENTIALS_DIR, MODE_700) >> ELSE <<>>

\* lines 145-152: a command for every .cred file whose mode is not 0o600
RECURSIVE CredIssues(_, _)
CredIssues(paths, c) ==
    IF paths = {} THEN <<>>
    ELSE LET p == CHOOSE x \in paths : TRUE
             rest == CredIssues(paths \ {p}, c)
         IN  IF c[p].exists /\ EndsWith(p, ".cred") /\ c[p].mode # MODE_600
             THEN << ChmodCommand(p, MODE_600) >> \o rest
             ELSE rest

\* lines 122-152: fix_commands after the three scans
FixCommands(tm, dm, c) == TreeIssues(tm) \o DirIssues(dm) \o CredIssues(CredPaths, c)

\* lines 120-160, 171-173: the scans, and the return when nothing was found
CheckPermissions ==
    /\ pc = "check_permissions"
    /\ \/ /\ UNCHANGED TailVars
          /\ UNCHANGED HistVars
          /\ fixCommands' = FixCommands(treeMode, credDirMode, cred)
          /\ fixLeft' = fixCommands'
          /\ IF fixCommands' = <<>>
             THEN auditRet' = TRUE /\ pc' = "audit_returned"
             ELSE auditRet' = auditRet /\ pc' = "fix_prompt"
          /\ UNCHANGED << treeMode, credDirMode, fixRan, fixAnswer, cred >>
          /\ UNCHANGED ControllerVars
          /\ UNCHANGED CallVars
       \/ TracebackFrom

\* lines 160-161, 170: "Would you like to fix these issues now?"
FixPrompt ==
    /\ UNCHANGED TailVars
    /\ UNCHANGED HistVars
    /\ pc = "fix_prompt"
    /\ \/ fixAnswer' = TRUE /\ pc' = "fix_loop" /\ auditRet' = auditRet
       \/ fixAnswer' = FALSE /\ pc' = "audit_returned" /\ auditRet' = FALSE
       \/ fixAnswer' = FALSE /\ pc' = "end_traceback" /\ auditRet' = auditRet
    /\ UNCHANGED << treeMode, credDirMode, fixCommands, fixLeft, fixRan, cred >>
    /\ UNCHANGED ControllerVars
    /\ UNCHANGED CallVars

\* the effect of chmod <mode> '<path>' with status 0
Chmod(cmd) ==
    /\ treeMode' = [i \in 1..Len(OvpnTree) |->
                       IF FullPath(OvpnTree[i]) = cmd.path THEN cmd.mode ELSE treeMode[i]]
    /\ credDirMode' = IF cmd.path = CREDENTIALS_DIR THEN cmd.mode ELSE credDirMode
    /\ cred' = [p \in CredPaths |->
                   IF p = cmd.path THEN [cred[p] EXCEPT !.mode = cmd.mode] ELSE cred[p]]

\* lines 162-169: one command of the loop, or its end; a non-zero status
\* leaves the loop by the except clause; KeyboardInterrupt while a command
\* runs, before or after the mode was changed, is caught nowhere (main, line
\* 378) and ends the program
FixNext ==
    /\ UNCHANGED TailVars
    /\ UNCHANGED HistVars
    /\ pc = "fix_loop"
    /\ IF fixLeft = <<>>
       THEN /\ auditRet' = TRUE
            /\ pc' = "audit_returned"
            /\ UNCHANGED << treeMode, credDirMode, cred, fixLeft, fixRan >>
       ELSE LET cmd == Head(fixLeft) IN
            /\ fixLeft' = Tail(fixLeft)
            /\ \/ /\ Chmod(cmd)
                  /\ fixRan' = fixRan \cup {cmd}
                  /\ UNCHANGED << auditRet, pc >>
               \/ /\ auditRet' = FALSE
                  /\ pc' = "audit_returned"
                  /\ UNCHANGED << treeMode, credDirMode, cred, fixRan >>
               \/ /\ pc' = "end_traceback"
                  /\ \/ UNCHANGED << treeMode, credDirMode, cred >>
                     \/ Chmod(cmd)
                  /\ UNCHANGED << auditRet, fixRan >>
    /\ UNCHANGED << fixCommands, fixAnswer >>
    /\ UNCHANGED ControllerVars
    /\ UNCHANGED CallVars

\* main, lines 378-380: "Continue anyway?" when check_permissions returned False
ContinuePrompt ==
    /\ UNCHANGED TailVars
    /\ UNCHANGED HistVars
    /\ pc = "audit_returned"
    /\ \/ auditRet /\ pc' \in {"debug_prompt", "end_traceback"}
       \/ ~auditRet /\ pc' \in {"debug_prompt", "end_exit_1", "end_traceback"}
    /\ UNCHANGED << cred >>
    /\ UNCHANGED AuditVars
    /\ UNCHANGED ControllerVars
    /\ UNCHANGED CallVars

\* the modes the audit can find: the required one, and one that is too open
InitAudit ==
    /\ pc = "check_permissions"
    /\ debug = FALSE
    /\ config = NoConfig
    /\ umask \in Umasks
    /\ userSet \in BOOLEAN
    /\ procs = [p \in Pids |-> "none"]
    /\ pids = <<>>
    /\ listed = {}
    /\ signalled = {}
    /\ killRet = FALSE
    /\ stopIssued = FALSE
    /\ launched = 0
    /\ logExists = FALSE
    /\ sinkCreated = FALSE
    /\ cred \in [CredPaths -> StoredFiles]
    /\ username = ""
    /\ password = ""
    /\ credRet = "None"
    /\ credVia = ""
    /\ tailProc = "none"
    /\ seen = <<>>
    /\ waitRet = FALSE
    /\ waitVia = 0
    /\ startRet = FALSE
    /\ startVia = 0
    /\ treeMode \in [1..Len(OvpnTree) -> {MODE_600} \cup {CreatedMode(u) : u \in Umasks}]
    /\ credDirMode \in {MODE_700, MODE_755}
    /\ fixCommands = <<>>
    /\ fixLeft = <<>>
    /\ fixRan = {}
    /\ fixAnswer = FALSE
    /\ auditRet = TRUE
    /\ credBefore = << NoFile, "" >>
    /\ credOwner = [p \in CredPaths |-> ""]
    /\ log = <<>>
    /\ tailPos = 1

NextAudit ==
    \/ CheckPermissions
    \/ FixPrompt
    \/ FixNext
    \/ ContinuePrompt

SpecAudit == InitAudit /\ [][NextAudit]_vars

Next ==
    \/ DebugPrompt
    \/ MenuSelect
    \/ AfterStart
    \/ CheckSudo
    \/ KillPgrep
    \/ KillNext
    \/ ProcExit
    \/ ClientDies
    \/ TouchLog
    \/ ChmodLog
    \/ NeedsCredentials
    \/ CredExists
    \/ CredReusePrompt
    \/ CredUsername
    \/ CredPassword
    \/ CredOpen
    \/ CredChmod
    \/ CredWrite
    \/ CredSaved
    \/ CredReturned
    \/ Launch
    \/ Sleep
    \/ Poll
    \/ TailSpawn
    \/ WaitReadLine
    \/ AfterWait
    \/ OptionPrompt
    \/ Finally

Spec == Init /\ [][Next]_vars

\* ------------------------------------------- the log file and tail -f, debug
\* What the client writes to log_file and what tail -f (line 302) hands to
\* wait_for_initialization: log is the file, tailPos the index of the next
\* line tail will deliver.

\* the lines the client writes: one without a marker, the success line and a
\* failure line
LogLines ==
    { "Thu OpenVPN 2.6.3 x86_64-pc-linux-gnu\n",
      "Thu Initialization Sequence Completed\n",
      "Thu AUTH_FAILED\n" }

\* the lines of the file that carry a marker
MarkerLines(file) == {i \in 1..Len(file) : HasMarker(file[i])}

\* line 294, --daemon --log log_file: the running client appends a line to the
\* file while start_vpn sleeps, spawns tail or reads
ClientWrites ==
    /\ UNCHANGED HistVars
    /\ UNCHANGED AuditVars
    /\ pc \in {"sleep_1", "tail_spawn", "wait"}
    /\ launched # 0
    /\ procs[launched] = "running"
    /\ Len(log) < MaxLog
    /\ \E l \in LogLines :
        /\ HasMarker(l) => Cardinality(MarkerLines(log)) < MaxMarkers
        /\ log' = Append(log, l)
    /\ tailPos' = tailPos
    /\ UNCHANGED << pc, debug, config, umask, userSet, procs, logExists, cred >>
    /\ UNCHANGED CallVars

\* tail -f log_file (line 302) opens the file some time after Popen has
\* returned, and starts with the last TAIL_LINES lines the file holds then:
\* tailPos = 0 says the file is not open yet
TailOpens ==
    /\ UNCHANGED HistVars
    /\ UNCHANGED AuditVars
    /\ tailProc = "running"
    /\ tailPos = 0
    /\ tailPos' = IF Len(log) > TAIL_LINES THEN Len(log) - TAIL_LINES + 1 ELSE 1
    /\ log' = log
    /\ UNCHANGED << pc, debug, config, umask, userSet, procs, logExists, cred >>
    /\ UNCHANGED CallVars

\* lines 301-307: Popen starts tail -f log_file, which has not opened the
\* file when Popen returns
TailSpawnLog ==
    /\ UNCHANGED HistVars
    /\ UNCHANGED AuditVars
    /\ pc = "tail_spawn"
    /\ \/ /\ tailProc' = "running"
          /\ tailPos' = 0
          /\ pc' = "wait"
          /\ UNCHANGED << startRet, startVia >>
       \/ /\ UNCHANGED << tailProc, tailPos >>
          /\ Return(FALSE, 347)
       \/ /\ UNCHANGED << tailProc, tailPos >>
          /\ Return(FALSE, 344)
    /\ log' = log
    /\ UNCHANGED << debug, config, umask, userSet, procs, pids, listed, signalled, killRet,
                    stopIssued, launched, logExists, sinkCreated, cred, username,
                    password, credRet, credVia, seen, waitRet, waitVia >>

\* lines 248-260 on the stream of tail: readline hands over the next line of
\* the file, if there is one; an empty read ends the loop (tail has ended)
WaitReadLog ==
    /\ UNCHANGED HistVars
    /\ UNCHANGED AuditVars
    /\ pc = "wait"
    /\ \/ /\ tailPos > 0
          /\ tailPos <= Len(log)
          /\ tailPos' = tailPos + 1
          /\ LET output == log[tailPos]
             IN  CASE LineVerdict(output) = "return_true" -> WaitReturn(EstablishedValue, 255)
                   [] LineVerdict(output) = "return_false" -> WaitReturn(FailedValue, 257)
                   [] OTHER -> UNCHANGED << pc, waitRet, waitVia, startRet, startVia >>
       \/ /\ WaitReturn(FALSE, 260)
          /\ tailPos' = tailPos
       \/ /\ WaitInterrupt
          /\ tailPos' = tailPos
       \/ /\ WaitRaises
          /\ tailPos' = tailPos
       \/ /\ WaitInterruptOutside
          /\ tailPos' = tailPos
    /\ log' = log
    /\ UNCHANGED << debug, config, umask, userSet, procs, pids, listed, signalled, killRet,
                    stopIssued, launched, logExists, sinkCreated, cred, username,
                    password, credRet, credVia, tailProc, seen >>

\* start_vpn in debug mode at line 294, for a configuration without
\* credentials: kill_openvpn and the log file are done, --log has emptied the file
InitTail ==
    /\ pc = "launch"
    /\ debug = TRUE
    /\ config = CHOOSE c \in {find_ovpn_files[i] : i \in 1..Len(find_ovpn_files)} :
                    ~needs_credentials(c)
    /\ umask \in Umasks
    /\ userSet = TRUE
    /\ procs = [p \in Pids |-> "none"]
    /\ pids = <<>>
    /\ listed = {}
    /\ signalled = {}
    /\ killRet = FALSE
    /\ stopIssued = TRUE
    /\ launched = 0
    /\ logExists = TRUE
    /\ sinkCreated = TRUE
    /\ cred = [p \in CredPaths |-> NoFile]
    /\ username = ""
    /\ password = ""
    /\ credRet = "None"
    /\ credVia = ""
    /\ tailProc = "none"
    /\ seen = <<>>
    /\ waitRet = FALSE
    /\ waitVia = 0
    /\ startRet = FALSE
    /\ startVia = 0
    /\ treeMode = [i \in 1..Len(OvpnTree) |-> MODE_600]
    /\ credDirMode = MODE_700
    /\ fixCommands = <<>>
    /\ fixLeft = <<>>
    /\ fixRan = {}
    /\ fixAnswer = FALSE
    /\ auditRet = TRUE
    /\ credBefore = << NoFile, "" >>
    /\ credOwner = [p \in CredPaths |-> ""]
    /\ log = <<>>
    /\ tailPos = 1

NextTail ==
    \/ Launch
    \/ ClientWrites
    \/ ClientDies
    \/ Sleep
    \/ TailSpawnLog
    \/ TailOpens
    \/ WaitReadLog
    \/ AfterWait
    \/ OptionPrompt
    \/ Finally

SpecTail == InitTail /\ [][NextTail]_vars

\* ------------------------------------------------------------------ claims
\* C1: in every call of start_vpn, verbose or not, kill_openvpn has been
\* called before the client is launched: the controller is at the launch, or
\* has launched a client in this call, only with the stop issued in this call.
C1_StopBeforeLaunch ==
    (pc = "launch" \/ launched # 0) => stopIssued

\* a second client was launched while pid 1 was still alive
C1_Witness ==
    /\ pc \in {"sleep_1", "sleep_2"}
    /\ launched = 2
    /\ stopIssued

\* C2 as claimed: at most one client instance exists in every reachable
\* state, with a single controller and no client started from outside it.
C2_AtMostOneClient ==
    Cardinality(Live) <= 1

\* C3 as claimed: whenever get_credentials has returned a path, by reuse or
\* after saving, the file at that path has mode 0o600.
C3_ReturnedSecretIs600 ==
    credRet # "None" => cred[credRet].mode = MODE_600

\* C4 as claimed: from open() to the end of the persist step of
\* get_credentials the secret file never has a mode other than 0o600.
C4_SecretIs600FromCreation ==
    (pc \in {"cred_chmod", "cred_write"} /\ cred[CredFile].exists)
        => cred[CredFile].mode = MODE_600

\* C5 as claimed: in normal mode, when start_vpn returns after sudo touch
\* created the log file, the log file is gone.
C5_LogDeletedOnReturn ==
    (pc = "returned" /\ ~debug /\ sinkCreated) => ~logExists

\* C6 as claimed: when the operator accepts the fix, every command of
\* fix_commands is run, a failed one included, and check_permissions returns
\* True exactly when all of them succeeded.
C6_RemediationGoesOn ==
    (pc = "audit_returned" /\ fixAnswer) =>
        /\ fixLeft = <<>>
        /\ auditRet <=> (fixRan = {fixCommands[i] : i \in 1..Len(fixCommands)})

\* the lines read before the last one hold no marker
NoMarkerBeforeLast ==
    \A i \in 1..(Len(seen) - 1) : ~HasMarker(seen[i])

\* C7 as claimed: the first line with a marker decides: Established if it
\* holds the success marker, Failed if it holds a failure marker.
C7_FirstMarkerDecides ==
    /\ pc = "wait" => \A i \in 1..Len(seen) : ~HasMarker(seen[i])
    /\ (pc = "after_wait" /\ waitVia \in {255, 257}) =>
          /\ seen # <<>>
          /\ NoMarkerBeforeLast
          /\ HasMarker(seen[Len(seen)])
          /\ HasSuccess(seen[Len(seen)]) => (waitVia = 255 /\ waitRet = EstablishedValue)
          /\ HasFailure(seen[Len(seen)]) => (waitVia = 257 /\ waitRet = FailedValue)

\* C7 amended: while it waits no line read held a marker; the first line with
\* a marker decides: Established if it holds the success marker, Failed if it
\* holds a failure marker and not the success marker; and once the outcome is
\* set the loop is not in its wait again in this call and the outcome stays.
C7_FirstMarkerDecidesSuccessFirst ==
    /\ pc = "wait" => \A i \in 1..Len(seen) : ~HasMarker(seen[i])
    /\ (pc = "after_wait" /\ waitVia \in {255, 257}) =>
          /\ seen # <<>>
          /\ NoMarkerBeforeLast
          /\ HasMarker(seen[Len(seen)])
          /\ HasSuccess(seen[Len(seen)]) => (waitVia = 255 /\ waitRet = EstablishedValue)
          /\ (HasFailure(seen[Len(seen)]) /\ ~HasSuccess(seen[Len(seen)]))
                => (waitVia = 257 /\ waitRet = FailedValue)
    /\ waitVia # 0 => pc # "wait"
    /\ waitVia = 255 => waitRet = EstablishedValue
    /\ waitVia = 257 => waitRet = FailedValue

\* a line without marker, then a line with both kinds of marker, gave Established
C7_Witness ==
    /\ pc = "after_wait"
    /\ Len(seen) = 2
    /\ HasSuccess(seen[2]) /\ HasFailure(seen[2])
    /\ waitRet = EstablishedValue

\* C8 as claimed: at the end of the stream with no marker read, the value
\* wait_for_initialization returns is a third one, neither the value of
\* Established nor the value of Failed.
C8_IndeterminateIsThirdValue ==
    (pc = "after_wait" /\ waitVia = 260) =>
        (waitRet # EstablishedValue /\ waitRet # FailedValue)

\* C9 as claimed: when kill_openvpn has returned, its value is True exactly
\* when this call terminated a process, and every pid pgrep listed was given
\* to sudo kill.
C9_KillReturnsWhetherKilled ==
    (pc = "touch" /\ stopIssued) =>
        /\ killRet <=> (signalled # {})
        /\ pids = <<>>

\* C10: KeyboardInterrupt in the wait of wait_for_initialization is caught
\* there (line 258) and makes the function return False at once, with no
\* further read or prompt; the step of start_vpn that follows terminates
\* log_process and returns False from line 329, so that log_process is
\* terminated when start_vpn returns.  (What a second KeyboardInterrupt does,
\* one that arrives after the wait has returned, is not this claim's subject.)
C10_InterruptFailsAndStopsTail ==
    /\ [](waitVia = 259 =>
            /\ waitRet = FailedValue
            /\ ~startRet
            /\ pc \in {"after_wait", "finally", "returned", "end_interrupt"})
    /\ [][(pc = "wait" /\ waitVia' = 259) => pc' = "after_wait"]_vars
    /\ [][(pc = "after_wait" /\ waitVia = 259 /\ pc' # pc /\ startVia' # 344) =>
            (startVia' = 329 /\ tailProc' = "terminated")]_vars
    /\ []((waitVia = 259 /\ startVia = 329) => tailProc = "terminated")

\* start_vpn has returned after an interrupt in the wait
C10_Witness ==
    /\ pc = "returned"
    /\ waitVia = 259
    /\ startVia = 329
    /\ debug
    /\ tailProc = "terminated"

\* the blocking waits of a start attempt: the prompts of get_credentials, the
\* two sleeps, the read of the log stream and the option prompt
BlockingWaits ==
    {"cred_reuse_prompt", "cred_username", "cred_password", "sleep_1", "sleep_2",
     "wait", "option_prompt"}

\* C11: an interrupt during a blocking wait inside a start attempt aborts
\* only that attempt: no step taken from one of these waits ends the program
\* through the interrupt handler of main
C11_InterruptAbortsOnlyTheAttempt ==
    [][(pc \in BlockingWaits) => (pc' # "end_interrupt")]_vars

\* C12: when the chosen configuration needs credentials and get_credentials
\* returns None, the call launches no client, its next step is the return of
\* False from line 289, and the step of main after that is the menu.  (The
\* steps are those start_vpn and main take by themselves: a KeyboardInterrupt
\* of the operator in between is not this claim's subject.)
C12_NullCredentialAbortsStart ==
    /\ [](credVia = "error" =>
            /\ credRet = "None"
            /\ launched = 0
            /\ pc \in {"cred_returned", "returned", "end_interrupt"}
            /\ (pc = "returned" => ~startRet /\ startVia = 289))
    /\ [][(pc = "cred_returned" /\ credRet = "None" /\ pc' \notin {pc, "end_interrupt"}) =>
            (pc' = "returned" /\ ~startRet' /\ startVia' = 289)]_vars
    /\ [][(pc = "returned" /\ credVia = "error" /\ pc' \notin {pc, "end_interrupt"}) =>
            pc' = "menu"]_vars

C12_Witness ==
    /\ pc = "returned"
    /\ credVia = "error"
    /\ needs_credentials(config)
    /\ startVia = 289

\* the return False statements of start_vpn: check_sudo (266), log file (277),
\* credentials (289), classifier (329), liveness poll (337), openvpn status
\* (341), KeyboardInterrupt caught (344), another exception caught (347)
FailureReturns == {266, 277, 289, 329, 337, 341, 344, 347}

\* C13: every failed start attempt returns False to main, and main goes on
\* with the menu: once start_vpn has taken one of its failure returns the
\* value is False, the call is in its finally clause or has returned, and the
\* step that leaves them is main showing the menu again; no failure return
\* ends the program.  (The steps are those start_vpn and main take by
\* themselves: a KeyboardInterrupt of the operator after the failure is not
\* this claim's subject.)
C13_FailureReturnsToMenu ==
    /\ [](startVia \in FailureReturns =>
            /\ ~startRet
            /\ pc \in {"finally", "returned", "end_interrupt"})
    /\ [][(/\ pc \in {"finally", "returned"}
           /\ startVia \in FailureReturns
           /\ pc' \notin {"finally", "returned", "end_interrupt"}) => pc' = "menu"]_vars

\* start_vpn has returned False after sudo openvpn gave a non-zero status
C13_Witness ==
    /\ pc = "returned"
    /\ startVia = 341
    /\ ~startRet
    /\ launched = 0

\* the items whose mode differs from the required one, as the commands that
\* would repair them: .ovpn files and credential files at 0600, the
\* credentials directory at 0700
DeviatingItems ==
    {ChmodCommand(FullPath(OvpnTree[i]), MODE_600) :
        i \in {j \in 1..Len(OvpnTree) :
                 EndsWith(OvpnTree[j].name, ".ovpn") /\ treeMode[j] # MODE_600}}
    \cup (IF credDirMode # MODE_700
          THEN {ChmodCommand(CREDENTIALS_DIR, MODE_700)} ELSE {})
    \cup {ChmodCommand(q, MODE_600) :
            q \in {r \in CredPaths : cred[r].exists /\ cred[r].mode # MODE_600}}

\* C14: the audit records exactly one issue for every item whose mode differs
\* from the required one and none for the others, and it returns ok with an
\* empty list exactly when no item deviates
C14_AuditRecordsEveryDeviation ==
    (pc = "fix_prompt" \/ (pc = "audit_returned" /\ ~fixAnswer)) =>
        /\ {fixCommands[i] : i \in 1..Len(fixCommands)} = DeviatingItems
        /\ Len(fixCommands) = Cardinality(DeviatingItems)
        /\ (pc = "audit_returned" =>
              ((auditRet /\ fixCommands = << >>) <=> DeviatingItems = {}))
        /\ (pc = "audit_returned" => (auditRet <=> DeviatingItems = {}))

C14_Witness ==
    /\ pc = "fix_prompt"
    /\ Len(fixCommands) >= 3
    /\ credDirMode # MODE_700
    /\ \E i \in 1..Len(OvpnTree) :
          EndsWith(OvpnTree[i].name, ".ovpn") /\ treeMode[i] = MODE_600

\* C15 as stated: with an existing credential file, accepting reuse returns
\* its path without a prompt and leaves the file as it was; declining prompts
\* and overwrites the file with the username and the password just entered
C15_ReuseKeepsDeclineOverwrites ==
    (pc = "cred_returned" /\ credBefore[1].exists) =>
        /\ (credVia = "reuse" =>
              /\ credRet = CredFile
              /\ username = "" /\ password = ""
              /\ cred[CredFile] = credBefore[1])
        /\ (credVia # "reuse" =>
              /\ username \in Usernames /\ password \in Passwords
              /\ cred[CredFile].content = << username, password >>)

\* C15 amended: accepting reuse is as stated.  After declining,
\* get_credentials prompts, and whenever it returns the path the file holds
\* exactly the username and the password just entered.  When saving fails it
\* returns None, and when it is interrupted it returns nothing; the file then
\* holds its old content (it was not opened), nothing, or a leading part of
\* the new text, cut at any character, and never anything else.  The formula holds in every
\* state of a call that found the file, the states an interrupt ends in
\* included.
C15_ReuseKeepsDeclineOverwritesWhenSaved ==
    credBefore[1].exists =>
        /\ (credVia = "reuse" =>
              /\ credRet = CredFile
              /\ username = "" /\ password = ""
              /\ cred[CredFile] = credBefore[1])
        /\ (credVia = "saved" =>
              /\ credRet = CredFile
              /\ username \in Usernames /\ password \in Passwords
              /\ cred[CredFile].content = << username, password >>)
        /\ (credVia = "error" =>
              /\ credRet = "None"
              /\ username \in Usernames /\ password \in Passwords
              /\ cred[CredFile].content \in
                    {credBefore[1].content} \cup WrittenParts(username, password))
        /\ (credVia = "" =>
              /\ credRet = "None"
              /\ cred[CredFile].content \in
                    {credBefore[1].content} \cup WrittenParts(username, password))
        /\ (pc = "cred_returned" => credVia \in {"reuse", "saved", "error"})

C15_Witness ==
    /\ pc = "cred_returned"
    /\ credBefore[1].exists
    /\ credVia = "saved"
    /\ cred[CredFile].content # credBefore[1].content

\* C16: in normal mode, after openvpn returned status 0 and the fixed wait,
\* the poll decides what start_vpn returns: True (line 334) exactly when some
\* openvpn process is alive at the poll, False (line 337) otherwise, and the
\* value is the same when start_vpn has returned
C16_NormalModeReturnsLiveness ==
    /\ [][(pc = "poll" /\ startVia' \in {334, 337}) =>
            /\ startRet' <=> (Live # {})
            /\ startVia' = IF Live # {} THEN 334 ELSE 337]_vars
    /\ [](pc = "poll" => ~debug /\ launched # 0)
    /\ [](startVia \in {334, 337} => (startRet <=> startVia = 334))

C16_Witness ==
    /\ pc = "returned"
    /\ ~debug
    /\ startVia = 337
    /\ ~startRet
    /\ launched # 0

\* C17: in debug mode the classifier is run over every line the client writes,
\* whatever number of lines was in the file when tail was opened: when
\* wait_for_initialization has read all that tail delivered and still waits,
\* the file holds no success line that comes before every failure line (such a
\* line would have made it return True)
C17_EveryLineIsClassified ==
    (pc = "wait" /\ tailPos > 0 /\ tailPos > Len(log)) =>
        ~ \E i \in 1..Len(log) :
              /\ HasSuccess(log[i])
              /\ \A j \in 1..(i - 1) : ~HasFailure(log[j])

\* C18: on every path by which a debug-mode call of start_vpn ends after tail
\* was spawned, the tail process has been terminated
C18_TailTerminatedAtEnd ==
    (pc \in {"returned", "end_sysexit"} /\ tailProc # "none") =>
        tailProc = "terminated"

\* C19: whenever start_vpn returns False after it launched a client, the
\* client launched by that call is no longer running
C19_NoClientLeftAfterFailure ==
    (pc = "returned" /\ ~startRet /\ launched # 0) => launched \notin Live

\* C20: get_credentials for one entry of find_ovpn_files never returns for
\* reuse, and never overwrites, a credential file that was written for an
\* entry of another full path
C20_SecretFileOfOneEntry ==
    /\ (pc = "cred_returned" /\ credVia = "reuse") =>
          credOwner[credRet] \in {"", config.full_path}
    /\ pc \in {"cred_chmod", "cred_write"} =>
          credBefore[2] \in {"", config.full_path}

====
